---- MODULE Spec2Model ----
(***************************************************************************)
(* SAP vs PLM validation tool (src/app.py).                                *)
(*                                                                         *)
(* One run of the script is modelled as a pipeline of stages; pc names the *)
(* stage that runs next.  A stage that raises ends the run in the          *)
(* `except Exception` handler (outcome "error").                           *)
(*                                                                         *)
(* Numbers.  A raw quantity cell of an uploaded table is a decimal with    *)
(* six fractional digits, held as an integer count of 10^-6 (RawScale).    *)
(* A normalized consumption (after round(.., 5)) is an integer count of    *)
(* 10^-5, and a stored percent difference (after round(.., 2)) an integer  *)
(* count of 0.01 percent.  Quotients are computed exactly and rounded      *)
(* half-to-even; the input sets hold no value on which binary floating     *)
(* point would round or compare differently.                               *)
(*                                                                         *)
(* Cells.  A quantity cell is <<tag, v>>: "num" with its value, "nan" for  *)
(* an empty cell / missing value, "str" for a non-numeric text.  A vendor  *)
(* reference cell is [nan, s] with s the text as a sequence of characters. *)
(* The similarity columns (thefuzz) and the Excel export feed no status,   *)
(* tally or filter and are left out.                                       *)
(***************************************************************************)
EXTENDS Integers, Sequences, FiniteSets, TLC

VARIABLES
    sap_file, plm_file,     \* a file has been uploaded in each uploader
    sap_cols, plm_cols,     \* column headers of each table
    sap_df, plm_df,         \* rows of each table
    merged_cols, merged_df, \* the merged table
    show_mismatch_only,     \* the checkbox
    filtered_df,            \* indices of merged_df shown in the preview
    summary,                \* the three metrics
    pc,                     \* next stage
    outcome,                \* "running", "info", "error", "report"
    error                   \* the exception caught, and the stage that raised it

vars == <<sap_file, plm_file, sap_cols, plm_cols, sap_df, plm_df, merged_cols,
          merged_df, show_mismatch_only, filtered_df, summary, pc, outcome, error>>

-----------------------------------------------------------------------------
(* Bounds *)

MaxRows == 2

(* Precision *)
CONS_DIGITS == 5        \* round(.., 5) of both consumptions
DIFF_DIGITS == 2        \* round(.., 2) of the percent difference
TOLERANCE_PCT == 5      \* TOLERANCE = 0.05

\* raw cells carry one digit more than a stored consumption
RawScale == 10 ^ (CONS_DIGITS + 1)

-----------------------------------------------------------------------------
(* Cells *)

NaN == <<"nan", 0>>
Text == <<"str", 0>>
Num(v) == <<"num", v>>

IsNum(c) == c[1] = "num"
IsText(c) == c[1] = "str"

\* pd.notna
notna(c) == c[1] # "nan"

Abs(x) == IF x < 0 THEN -x ELSE x

RECURSIVE LongDiv(_, _, _, _)
\* k more decimal digits of the quotient whose integer part is q, remainder r
LongDiv(q, r, b, k) ==
    IF k = 0 THEN <<q, r>>
    ELSE LongDiv(q * 10 + ((r * 10) \div b), (r * 10) % b, b, k - 1)

\* round(n / d, k) as an integer count of 10^-k, ties to even
RoundDiv(n, d, k) ==
    LET a == Abs(n)
        b == Abs(d)
        qr == LongDiv(a \div b, a % b, b, k)
        q == qr[1]
        r == qr[2]
        m == IF 2 * r > b THEN q + 1
             ELSE IF 2 * r < b THEN q
             ELSE IF q % 2 = 0 THEN q ELSE q + 1
    IN  IF (n < 0) # (d < 0) THEN -m ELSE m

-----------------------------------------------------------------------------
(* Text of vendor references *)

Chr(s) == [nan |-> FALSE, s |-> s]
NaNRef == [nan |-> TRUE, s |-> <<>>]

\* str(x): a missing value prints as "nan"
str(c) == IF c.nan THEN <<"n", "a", "n">> ELSE c.s

RECURSIVE lstrip(_)
lstrip(s) == IF s # <<>> /\ Head(s) = " " THEN lstrip(Tail(s)) ELSE s

RECURSIVE rstrip(_)
rstrip(s) ==
    IF s # <<>> /\ s[Len(s)] = " " THEN rstrip(SubSeq(s, 1, Len(s) - 1)) ELSE s

strip(s) == rstrip(lstrip(s))

\* a in b, on strings
In(a, b) ==
    \E i \in 1..(Len(b) + 1) :
        /\ i + Len(a) - 1 <= Len(b)
        /\ SubSeq(b, i, i + Len(a) - 1) = a

-----------------------------------------------------------------------------
(* Column headers: a header is its name and whether it carries surrounding *)
(* whitespace in the file.                                                 *)

Hdr(n) == [name |-> n, pad |-> FALSE]
Padded(n) == [name |-> n, pad |-> TRUE]

\* columns.str.strip()
strip_columns(cols) == {Hdr(h.name) : h \in cols}

SapRename(n) ==
    CASE n = "FG Color Description" -> "Color"
      [] n = "Vendor Reference" -> "Vendor Reference_SAP"
      [] n = "Comp.Qty." -> "SAP_Component_Qty"
      [] n = "Base quantity" -> "Base_Qty"
      [] OTHER -> n

PlmRename(n) ==
    CASE n = "Color Name" -> "Color"
      [] n = "Vendor Ref" -> "Vendor Reference_PLM"
      [] n = "Consumption" -> "PLM_Consumption"
      [] OTHER -> n

\* rename matches a header only by its exact text
sap_rename(cols) == {IF h.pad THEN h ELSE Hdr(SapRename(h.name)) : h \in cols}
plm_rename(cols) == {IF h.pad THEN h ELSE Hdr(PlmRename(h.name)) : h \in cols}

Has(cols, n) == Hdr(n) \in cols

-----------------------------------------------------------------------------
(* Uploaded tables *)

SapHeaders == {"Material", "FG Color Description", "Vendor Reference",
               "Comp.Qty.", "Base quantity"}
PlmHeaders == {"Material", "Color Name", "Vendor Ref", "Consumption"}

AllSapCols == {Hdr(n) : n \in SapHeaders}
AllPlmCols == {Hdr(n) : n \in PlmHeaders}

Keys == {<<"M1", "Red">>, <<"M1", "Blue">>, <<"M2", "Red">>}

V1 == Chr(<<"V", "1">>)

SapRow(k, v, c, b) ==
    [Material |-> k[1], Color |-> k[2], Vendor |-> v, Comp |-> c, Base |-> b]
PlmRow(k, v, c) ==
    [Material |-> k[1], Color |-> k[2], Vendor |-> v, Cons |-> c]

Table(sc, pcs, s, p) == [sap_cols |-> sc, plm_cols |-> pcs, sap_df |-> s, plm_df |-> p]

\* raw quantities, in units of 10^-6
CompCells == {NaN, Text, Num(0), Num(10 * RawScale), Num(100 * RawScale),
              Num(105 * RawScale), Num(1050040), Num(949970)}
BaseCells == {NaN, Text, Num(0), Num(RawScale), Num(3 * RawScale), Num(4 * RawScale)}
ConsCells == {NaN, Text, Num(0), Num(RawScale), Num(-RawScale), Num(1000004),
              Num(2500000), Num(2500006), Num(95 * RawScale), Num(95500000),
              Num(100 * RawScale)}

\* read_excel turns an empty cell, and the texts "" and "nan", into a missing value
VendorCells == {NaNRef, V1, Chr(<<" ">>), Chr(<<"V", "1", " ">>),
                Chr(<<"V", "1", "2">>), Chr(<<"a", "n">>), Chr(<<"X">>)}

\* one SAP row against one PLM row of the same key, or against none
QtyTables ==
    {Table(AllSapCols, AllPlmCols,
           <<SapRow(<<"M1", "Red">>, V1, c, b)>>,
           <<PlmRow(<<"M1", "Red">>, V1, p)>>) :
        c \in CompCells, b \in BaseCells, p \in ConsCells}
    \cup
    {Table(AllSapCols, AllPlmCols,
           <<SapRow(<<"M1", "Red">>, V1, c, b)>>,
           <<PlmRow(<<"M2", "Red">>, V1, Num(RawScale))>>) :
        c \in CompCells, b \in BaseCells}

\* vendor references of one SAP row and of its PLM row, if it has one
VendorTables ==
    {Table(AllSapCols, AllPlmCols,
           <<SapRow(<<"M1", "Red">>, v, Num(10 * RawScale), Num(4 * RawScale))>>,
           <<PlmRow(k, w, Num(2500000))>>) :
        v \in VendorCells, w \in VendorCells, k \in {<<"M1", "Red">>, <<"M1", "Blue">>}}

\* up to MaxRows rows a table, keys repeating
SapRowsOf(ks) ==
    [i \in 1..Len(ks) |-> SapRow(ks[i], V1, Num(10 * i * RawScale), Num(4 * RawScale))]
PlmRowsOf(ks) ==
    [i \in 1..Len(ks) |-> PlmRow(ks[i], V1, Num(2500000 * i))]

KeySeqs(lo) == UNION {[1..n -> Keys] : n \in lo..MaxRows}

JoinTables ==
    {Table(AllSapCols, AllPlmCols, SapRowsOf(s), PlmRowsOf(p)) :
        s \in KeySeqs(1), p \in KeySeqs(0)}

\* a table lacks at most one column and has at most one padded header
Lacking(all) == {all} \cup {all \ {h} : h \in all}
Padding(cols) == {cols} \cup {(cols \ {h}) \cup {Padded(h.name)} : h \in cols}
Headers(all) == UNION {Padding(c) : c \in Lacking(all)}

SchemaTables ==
    {Table(sc, pcs,
           <<SapRow(<<"M1", "Red">>, V1, Num(10 * RawScale), b)>>,
           <<PlmRow(<<"M1", "Red">>, V1, Num(2500000))>>) :
        sc \in Headers(AllSapCols), pcs \in Headers(AllPlmCols),
        b \in {Num(0), Num(4 * RawScale)}}

Tables == QtyTables \cup VendorTables \cup JoinTables \cup SchemaTables

NoTable == Table({}, {}, <<>>, <<>>)

-----------------------------------------------------------------------------
(* State after the page is first drawn *)

None == <<"none", 0>>
NoError == [kind |-> "", names |-> {}, stage |-> ""]
NoSummary == [total |-> 0, within |-> 0, mismatches |-> 0]

Init ==
    /\ \E s \in BOOLEAN, p \in BOOLEAN, t \in Tables \cup {NoTable} :
        /\ (s /\ p) = (t # NoTable)
        /\ sap_file = s
        /\ plm_file = p
        /\ sap_cols = t.sap_cols
        /\ plm_cols = t.plm_cols
        /\ sap_df = t.sap_df
        /\ plm_df = t.plm_df
    /\ merged_cols = {}
    /\ merged_df = <<>>
    /\ show_mismatch_only = FALSE
    /\ filtered_df = <<>>
    /\ summary = NoSummary
    /\ pc = "start"
    /\ outcome = "running"
    /\ error = NoError

-----------------------------------------------------------------------------
(* The row-wise functions *)

\* row.get(col, ""): the cell, or "" where the merged table has no such column
get(cols, col, cell) == IF Has(cols, col) THEN cell ELSE Chr(<<>>)

check_vendor_ref(sap_cell, plm_cell) ==
    LET sap_ref == strip(str(sap_cell))
        plm_ref == strip(str(plm_cell))
    IN  IF plm_ref = <<>> THEN "No Vendor Ref in PLM"
        ELSE IF sap_ref = plm_ref THEN "Exact Match"
        ELSE IF In(sap_ref, plm_ref) \/ In(plm_ref, sap_ref) THEN "Partial Match"
        ELSE "Mismatch"

material_match(x) == IF notna(x) THEN "Matched in PLM" ELSE "Missing in PLM"

\* the SAP_Consumption lambda, on cells whose division does not raise
sap_consumption(comp, base) ==
    IF notna(base) /\ base # Num(0)
    THEN IF IsNum(comp) THEN Num(RoundDiv(comp[2], base[2], CONS_DIGITS)) ELSE NaN
    ELSE Num(0)

\* fillna(0).round(5) of one numeric cell
plm_consumption(c) ==
    IF notna(c) THEN Num(RoundDiv(c[2], RawScale, CONS_DIGITS)) ELSE Num(0)

\* the comparison made strict
within_tolerance_strict(n, d) ==
    IF d > 0 THEN n * 100 < TOLERANCE_PCT * d ELSE n * 100 > TOLERANCE_PCT * d

\* n / d <= TOLERANCE, n >= 0, d # 0
within_tolerance(n, d) ==
    IF d > 0 THEN n * 100 <= TOLERANCE_PCT * d ELSE n * 100 >= TOLERANCE_PCT * d

\* a comparison with NaN is False
compare_consumption(sap, plm) ==
    IF plm = Num(0) /\ sap = Num(0) THEN "OK"
    ELSE IF plm = Num(0) THEN "PLM Missing"
    ELSE IF ~IsNum(sap) THEN "PLM Higher"
    ELSE IF within_tolerance(Abs(sap[2] - plm[2]), plm[2]) THEN "Within Tolerance"
    ELSE IF sap[2] > plm[2] THEN "SAP Higher"
    ELSE "PLM Higher"

\* the Consumption_Diff_% lambda, in units of 0.01 percent
consumption_diff(sap, plm) ==
    IF plm # Num(0)
    THEN IF IsNum(sap)
         THEN Num(RoundDiv(sap[2] - plm[2], plm[2], DIFF_DIGITS + 2))
         ELSE NaN
    ELSE NaN

-----------------------------------------------------------------------------
(* pd.merge(sap_df, plm_df, on=["Material", "Color"], how="left") *)

SameKey(a, b) == a.Material = b.Material /\ a.Color = b.Color

MRow(left, right, i, j) ==
    [sap |-> i, plm |-> j,
     Material |-> left[i].Material,
     Color |-> left[i].Color,
     Vendor_Reference_SAP |-> left[i].Vendor,
     Vendor_Reference_PLM |-> IF j = 0 THEN NaNRef ELSE right[j].Vendor,
     SAP_Component_Qty |-> left[i].Comp,
     Base_Qty |-> left[i].Base,
     PLM_Consumption |-> IF j = 0 THEN NaN ELSE right[j].Cons,
     Material_Match |-> "",
     VendorRef_Status |-> "",
     SAP_Consumption |-> None,
     Consumption_Status |-> "",
     Consumption_Diff |-> None]

RECURSIVE Pairs(_, _, _, _)
\* the rows of left[i] paired with right[j..], in the order of right
Pairs(left, right, i, j) ==
    IF j > Len(right) THEN <<>>
    ELSE (IF SameKey(left[i], right[j]) THEN <<MRow(left, right, i, j)>> ELSE <<>>)
         \o Pairs(left, right, i, j + 1)

\* a left row paired with its first match only
LeftRowsFirst(left, right, i) ==
    LET m == Pairs(left, right, i, 1)
    IN  IF m = <<>> THEN <<MRow(left, right, i, 0)>> ELSE <<Head(m)>>

\* a left row without a match is kept, with missing values on the right
LeftRows(left, right, i) ==
    LET m == Pairs(left, right, i, 1)
    IN  IF m = <<>> THEN <<MRow(left, right, i, 0)>> ELSE m

RECURSIVE MergeFrom(_, _, _)
MergeFrom(left, right, i) ==
    IF i > Len(left) THEN <<>>
    ELSE LeftRows(left, right, i) \o MergeFrom(left, right, i + 1)

merge(left, right) == MergeFrom(left, right, 1)

MergedCols(lc, rc) == lc \cup rc

-----------------------------------------------------------------------------
(* Stages *)

Raise(kind, names, stage) ==
    /\ error' = [kind |-> kind, names |-> names, stage |-> stage]
    /\ outcome' = "error"
    /\ pc' = "done"

Tables_ == <<sap_file, plm_file, sap_cols, plm_cols, sap_df, plm_df>>
View_ == <<show_mismatch_only, filtered_df, summary>>

\* else: st.info
NoFiles ==
    /\ pc = "start"
    /\ ~(sap_file /\ plm_file)
    /\ outcome' = "info"
    /\ pc' = "done"
    /\ UNCHANGED <<Tables_, merged_cols, merged_df, View_, error>>

\* read_excel, columns.str.strip(), rename
Read ==
    /\ pc = "start"
    /\ sap_file /\ plm_file
    /\ sap_cols' = sap_rename(strip_columns(sap_cols))
    /\ plm_cols' = plm_rename(strip_columns(plm_cols))
    /\ pc' = "merge"
    /\ UNCHANGED <<sap_file, plm_file, sap_df, plm_df, merged_cols, merged_df,
                   View_, outcome, error>>

MissingKeys ==
    {k \in {"Material", "Color"} : ~Has(sap_cols, k) \/ ~Has(plm_cols, k)}

Merge ==
    /\ pc = "merge"
    /\ IF MissingKeys # {}
       THEN /\ Raise("KeyError", MissingKeys, "merge")
            /\ UNCHANGED <<merged_cols, merged_df>>
       ELSE /\ merged_df' = merge(sap_df, plm_df)
            /\ merged_cols' = MergedCols(sap_cols, plm_cols)
            /\ pc' = "material_match"
            /\ UNCHANGED <<outcome, error>>
    /\ UNCHANGED <<Tables_, View_>>

MaterialMatch ==
    /\ pc = "material_match"
    /\ IF ~Has(merged_cols, "PLM_Consumption")
       THEN /\ Raise("KeyError", {"PLM_Consumption"}, "material_match")
            /\ UNCHANGED <<merged_cols, merged_df>>
       ELSE /\ merged_df' = [i \in 1..Len(merged_df) |->
                [merged_df[i] EXCEPT
                    !.Material_Match = material_match(merged_df[i].PLM_Consumption)]]
            /\ merged_cols' = merged_cols \cup {Hdr("Material_Match")}
            /\ pc' = "vendor_ref"
            /\ UNCHANGED <<outcome, error>>
    /\ UNCHANGED <<Tables_, View_>>

VendorRef ==
    /\ pc = "vendor_ref"
    /\ merged_df' = [i \in 1..Len(merged_df) |->
          [merged_df[i] EXCEPT !.VendorRef_Status =
              check_vendor_ref(
                  get(merged_cols, "Vendor Reference_SAP", merged_df[i].Vendor_Reference_SAP),
                  get(merged_cols, "Vendor Reference_PLM", merged_df[i].Vendor_Reference_PLM))]]
    /\ merged_cols' = merged_cols \cup {Hdr("VendorRef_Status")}
    /\ pc' = "sap_consumption"
    /\ UNCHANGED <<Tables_, View_, outcome, error>>

\* what evaluating the SAP_Consumption lambda on one row raises, if anything
sap_fault(cols, row) ==
    IF ~Has(cols, "Base_Qty") THEN <<"KeyError", {"Base_Qty"}>>
    ELSE IF ~(notna(row.Base_Qty) /\ row.Base_Qty # Num(0)) THEN <<"", {}>>
    ELSE IF ~Has(cols, "SAP_Component_Qty") THEN <<"KeyError", {"SAP_Component_Qty"}>>
    ELSE IF IsText(row.SAP_Component_Qty) \/ IsText(row.Base_Qty) THEN <<"TypeError", {}>>
    ELSE <<"", {}>>

Faulty(cols, df) == {i \in 1..Len(df) : sap_fault(cols, df[i])[1] # ""}

Min(S) == CHOOSE x \in S : \A y \in S : x <= y

SapConsumption ==
    /\ pc = "sap_consumption"
    /\ LET bad == Faulty(merged_cols, merged_df)
       IN  IF bad # {}
           THEN LET f == sap_fault(merged_cols, merged_df[Min(bad)])
                IN  /\ Raise(f[1], f[2], "sap_consumption")
                    /\ UNCHANGED <<merged_cols, merged_df>>
           ELSE /\ merged_df' = [i \in 1..Len(merged_df) |->
                    [merged_df[i] EXCEPT !.SAP_Consumption =
                        sap_consumption(merged_df[i].SAP_Component_Qty,
                                        merged_df[i].Base_Qty)]]
                /\ merged_cols' = merged_cols \cup {Hdr("SAP_Consumption")}
                /\ pc' = "plm_consumption"
                /\ UNCHANGED <<outcome, error>>
    /\ UNCHANGED <<Tables_, View_>>

\* a text cell makes the whole column non-numeric, and round() raises on it
PlmConsumption ==
    /\ pc = "plm_consumption"
    /\ IF \E j \in 1..Len(plm_df) : IsText(plm_df[j].Cons)
       THEN /\ Raise("TypeError", {}, "plm_consumption")
            /\ UNCHANGED merged_df
       ELSE /\ merged_df' = [i \in 1..Len(merged_df) |->
                [merged_df[i] EXCEPT !.PLM_Consumption =
                    plm_consumption(merged_df[i].PLM_Consumption)]]
            /\ pc' = "compare"
            /\ UNCHANGED <<outcome, error>>
    /\ UNCHANGED <<Tables_, View_, merged_cols>>

Compare ==
    /\ pc = "compare"
    /\ merged_df' = [i \in 1..Len(merged_df) |->
          [merged_df[i] EXCEPT !.Consumption_Status =
              compare_consumption(merged_df[i].SAP_Consumption,
                                  merged_df[i].PLM_Consumption)]]
    /\ merged_cols' = merged_cols \cup {Hdr("Consumption_Status")}
    /\ pc' = "diff"
    /\ UNCHANGED <<Tables_, View_, outcome, error>>

Diff ==
    /\ pc = "diff"
    /\ merged_df' = [i \in 1..Len(merged_df) |->
          [merged_df[i] EXCEPT !.Consumption_Diff =
              consumption_diff(merged_df[i].SAP_Consumption,
                               merged_df[i].PLM_Consumption)]]
    /\ merged_cols' = merged_cols \cup {Hdr("Consumption_Diff_%")}
    /\ pc' = "filter"
    /\ UNCHANGED <<Tables_, View_, outcome, error>>

\* the rows the "Show only mismatches" filter keeps
is_mismatch(row) ==
    \/ row.Consumption_Status # "Within Tolerance"
    \/ row.VendorRef_Status # "Exact Match"
    \/ row.Material_Match # "Matched in PLM"

RECURSIVE Select(_, _, _)
\* the row indices i..n that a boolean mask keeps, in order
Select(mask, n, i) ==
    IF i > n THEN <<>>
    ELSE (IF i \in mask THEN <<i>> ELSE <<>>) \o Select(mask, n, i + 1)

Filter ==
    /\ pc = "filter"
    /\ \E checked \in BOOLEAN :
        /\ show_mismatch_only' = checked
        /\ filtered_df' =
              IF checked
              THEN Select({i \in 1..Len(merged_df) : is_mismatch(merged_df[i])},
                          Len(merged_df), 1)
              ELSE [i \in 1..Len(merged_df) |-> i]
    /\ pc' = "summary"
    /\ UNCHANGED <<Tables_, merged_cols, merged_df, summary, outcome, error>>

\* drop_duplicates(subset=["Material", "Color"]) keeps the first row of each key
drop_duplicates(df) ==
    Select({i \in 1..Len(df) : \A j \in 1..(i - 1) : ~SameKey(df[j], df[i])},
           Len(df), 1)

\* (summary_df["Consumption_Status"] == "Within Tolerance").sum(), or != when ~eq
CountStatus(df, idx, eq) ==
    Cardinality({k \in 1..Len(idx) :
        (df[idx[k]].Consumption_Status = "Within Tolerance") = eq})

Summary ==
    /\ pc = "summary"
    /\ LET summary_df == drop_duplicates(merged_df)
       IN  summary' = [total |-> Len(summary_df),
                       within |-> CountStatus(merged_df, summary_df, TRUE),
                       mismatches |-> CountStatus(merged_df, summary_df, FALSE)]
    /\ outcome' = "report"
    /\ pc' = "done"
    /\ UNCHANGED <<Tables_, merged_cols, merged_df, show_mismatch_only, filtered_df, error>>

Next ==
    \/ NoFiles
    \/ Read
    \/ Merge
    \/ MaterialMatch
    \/ VendorRef
    \/ SapConsumption
    \/ PlmConsumption
    \/ Compare
    \/ Diff
    \/ Filter
    \/ Summary

Spec == Init /\ [][Next]_vars

-----------------------------------------------------------------------------
(* Vocabulary of the properties *)

Rows == 1..Len(merged_df)

Normalized == Has(merged_cols, "SAP_Consumption")
Classified == Has(merged_cols, "Consumption_Status")
Differenced == Has(merged_cols, "Consumption_Diff_%")
VendorChecked == Has(merged_cols, "VendorRef_Status")
Merged == pc \in {"material_match", "vendor_ref", "sap_consumption",
                  "plm_consumption", "compare", "diff", "filter", "summary"}
             \/ (pc = "done" /\ error.stage \notin {"", "merge"})
             \/ outcome = "report"

\* the ratio rule has no value: no usable denominator, or no numerator
SapAbsent(r) ==
    ~IsNum(r.Base_Qty) \/ r.Base_Qty = Num(0) \/ ~IsNum(r.SAP_Component_Qty)

\* the PLM side has no value: no PLM row was matched, or its cell is not a number
PlmAbsent(r) == r.plm = 0 \/ ~IsNum(plm_df[r.plm].Cons)

Unit == 10 ^ CONS_DIGITS

\* a required column is in neither its uploaded nor its renamed form
Lacks(cols, names) == \A h \in cols : h.name \notin names

RequiredMissing ==
    \/ Lacks(sap_cols, {"Material"})
    \/ Lacks(sap_cols, {"FG Color Description", "Color"})
    \/ Lacks(sap_cols, {"Comp.Qty.", "SAP_Component_Qty"})
    \/ Lacks(sap_cols, {"Base quantity", "Base_Qty"})
    \/ Lacks(plm_cols, {"Material"})
    \/ Lacks(plm_cols, {"Color Name", "Color"})
    \/ Lacks(plm_cols, {"Consumption", "PLM_Consumption"})

\* both files were uploaded with every required column
WellFormed == sap_file /\ plm_file /\ ~RequiredMissing

\* C1: SAP_Consumption is component_qty / base_qty rounded to 5 digits when
\* base_qty is present and nonzero, and absent (not zero) when base_qty is
\* absent or zero.
C1_RatioRule ==
    (WellFormed /\ Normalized) =>
        \A i \in Rows :
            LET r == merged_df[i]
            IN  /\ (IsNum(r.Base_Qty) /\ r.Base_Qty # Num(0) /\ IsNum(r.SAP_Component_Qty))
                      => r.SAP_Consumption =
                            Num(RoundDiv(r.SAP_Component_Qty[2], r.Base_Qty[2], 5))
                /\ (~notna(r.Base_Qty) \/ r.Base_Qty = Num(0))
                      => r.SAP_Consumption = NaN

\* C2: with both consumptions present and plm nonzero, the status is
\* 'Within Tolerance' exactly when |sap - plm| / plm <= 5%, and otherwise
\* 'SAP Higher' when sap > plm and 'PLM Higher' when sap < plm; sap = 100 against
\* plm = 95 is 'SAP Higher' and against plm = 95.5 'Within Tolerance'.
C2_Tolerance ==
    Classified =>
        \A i \in Rows :
            LET r == merged_df[i]
                sap == r.SAP_Consumption[2]
                plm == r.PLM_Consumption[2]
                st == r.Consumption_Status
                \* |sap - plm| / plm <= 1/20: a negative quotient is below it
                ratio_ok == plm < 0 \/ 20 * Abs(sap - plm) <= plm
            IN  (~SapAbsent(r) /\ ~PlmAbsent(r) /\ plm # 0) =>
                    /\ (st = "Within Tolerance") <=> ratio_ok
                    /\ (~ratio_ok /\ sap > plm) => st = "SAP Higher"
                    /\ (~ratio_ok /\ sap < plm) => st = "PLM Higher"
                    /\ (sap = 100 * Unit /\ plm = 95 * Unit) => st = "SAP Higher"
                    /\ (sap = 100 * Unit /\ 2 * plm = 191 * Unit)
                          => st = "Within Tolerance"

\* a classified record at exactly 5%: 105 against 100
C2_Witness ==
    /\ Classified
    /\ \E i \in Rows :
        LET r == merged_df[i]
        IN  /\ ~SapAbsent(r) /\ ~PlmAbsent(r)
            /\ r.SAP_Consumption = Num(105 * Unit)
            /\ r.PLM_Consumption = Num(100 * Unit)
            /\ r.Consumption_Status = "Within Tolerance"

\* C3: a record with exactly one side absent is 'Missing in PLM' (plm absent)
\* or 'Missing in SAP' (sap absent), and a present zero never gets the status
\* of an absent value.
C3_MissingSide ==
    (WellFormed /\ Classified) =>
        \A i \in Rows :
            LET r == merged_df[i]
                st == r.Consumption_Status
            IN  /\ (PlmAbsent(r) /\ ~SapAbsent(r)) => st = "Missing in PLM"
                /\ (SapAbsent(r) /\ ~PlmAbsent(r)) => st = "Missing in SAP"
                /\ (~PlmAbsent(r) /\ ~SapAbsent(r))
                      => st \notin {"Missing in PLM", "Missing in SAP", "PLM Missing"}

\* C4: when a required column is missing the run ends in an error naming it,
\* reached before the merge and before any normalization or classification.
C4_SchemaFirst ==
    (sap_file /\ plm_file /\ RequiredMissing) =>
        /\ ~Merged
        /\ merged_df = <<>>
        /\ pc = "done" => (outcome = "error" /\ error.names # {})

\* C5: a non-numeric or empty quantity cell never aborts the run.
C5_CellFaultsAbsorbed ==
    WellFormed => outcome # "error"

KeyCount(df, k) ==
    Cardinality({i \in 1..Len(df) : df[i].Material = k[1] /\ df[i].Color = k[2]})

\* C6: every key of either table is in the output: m*n records for a key with
\* m SAP rows and n PLM rows, and as many records as rows for a key of one
\* table only.
C6_OuterJoin ==
    Merged =>
        \A k \in Keys :
            LET m == KeyCount(sap_df, k)
                n == KeyCount(plm_df, k)
            IN  KeyCount(merged_df, k) = IF m >= 1 /\ n >= 1 THEN m * n ELSE m + n

\* C6 as amended: the join is a left outer join with SAP on the left: m*n
\* records for a key in both tables, each SAP row with each PLM row of its key
\* once; m records for a key of SAP only; none for a key of PLM only.
C6_LeftJoin ==
    Merged =>
        /\ \A k \in Keys :
            LET m == KeyCount(sap_df, k)
                n == KeyCount(plm_df, k)
            IN  KeyCount(merged_df, k) = IF n >= 1 THEN m * n ELSE m
        /\ {<<merged_df[i].sap, merged_df[i].plm>> : i \in Rows}
              = {<<i, j>> \in (1..Len(sap_df)) \X (1..Len(plm_df)) :
                    SameKey(sap_df[i], plm_df[j])}
                \cup {<<i, 0>> : i \in {x \in 1..Len(sap_df) :
                        \A j \in 1..Len(plm_df) : ~SameKey(sap_df[x], plm_df[j])}}
        /\ \A i \in Rows : \A j \in Rows :
              (merged_df[i].sap = merged_df[j].sap /\ merged_df[i].plm = merged_df[j].plm)
                  => i = j

\* a key held twice by each table, merged into four records
C6_Witness ==
    /\ Merged
    /\ \E k \in Keys :
        /\ KeyCount(sap_df, k) = 2
        /\ KeyCount(plm_df, k) = 2
        /\ KeyCount(merged_df, k) = 4

FirstOfKey(i) == \A j \in 1..(i - 1) : ~SameKey(merged_df[j], merged_df[i])

\* C7: a record with both consumptions absent has status 'OK', is not counted
\* in the 'Mismatches' tally and is not selected by the mismatch filter for its
\* consumption status.
C7_BothAbsent ==
    (WellFormed /\ outcome = "report") =>
        /\ \A i \in Rows :
            LET r == merged_df[i]
            IN  (SapAbsent(r) /\ PlmAbsent(r)) =>
                    /\ r.Consumption_Status = "OK"
                    /\ (show_mismatch_only /\ \E k \in 1..Len(filtered_df) : filtered_df[k] = i)
                          => (r.VendorRef_Status # "Exact Match"
                              \/ r.Material_Match # "Matched in PLM")
        /\ summary.mismatches <=
              Cardinality({i \in Rows :
                  FirstOfKey(i) /\ ~(SapAbsent(merged_df[i]) /\ PlmAbsent(merged_df[i]))})

\* C8: a record with a stored percent difference d is 'Within Tolerance'
\* exactly when |d| <= 5.00.  Stated for the records with a positive PLM
\* consumption, where the sign of the quotient plays no part.
C8_StoredPrecision ==
    (WellFormed /\ Differenced) =>
        \A i \in Rows :
            LET r == merged_df[i]
            IN  (IsNum(r.Consumption_Diff) /\ r.PLM_Consumption[2] > 0) =>
                    ((r.Consumption_Status = "Within Tolerance")
                        <=> (Abs(r.Consumption_Diff[2]) <= TOLERANCE_PCT * 100))

\* the reference as a key component: absent is the empty string
Ref(cell) == IF cell.nan THEN <<>> ELSE strip(cell.s)

\* C9: an absent PLM vendor reference counts as the empty string and gives
\* 'No Vendor Ref in PLM'; an empty reference against a non-empty one is never
\* 'Exact Match' or 'Partial Match'.
C9_AbsentVendorRef ==
    (/\ VendorChecked
     /\ Has(merged_cols, "Vendor Reference_SAP")
     /\ Has(merged_cols, "Vendor Reference_PLM")) =>
        \A i \in Rows :
            LET r == merged_df[i]
                s == Ref(r.Vendor_Reference_SAP)
                p == Ref(r.Vendor_Reference_PLM)
            IN  /\ (r.plm = 0 \/ r.Vendor_Reference_PLM.nan)
                      => r.VendorRef_Status = "No Vendor Ref in PLM"
                /\ ((s = <<>>) # (p = <<>>))
                      => r.VendorRef_Status \notin {"Exact Match", "Partial Match"}

\* C10: 'Within Tolerance' implies |sap - plm| <= 0.05 * |plm|, whatever the
\* signs of sap and plm (stated for the records with a value on both sides).
C10_RealDiscrepancy ==
    (WellFormed /\ Classified) =>
        \A i \in Rows :
            LET r == merged_df[i]
            IN  (/\ ~SapAbsent(r) /\ ~PlmAbsent(r)
                 /\ r.Consumption_Status = "Within Tolerance") =>
                    20 * Abs(r.SAP_Consumption[2] - r.PLM_Consumption[2])
                        <= Abs(r.PLM_Consumption[2])

====
